---- MODULE Spec2Model ----
(***************************************************************************)
(* A model of the LLM quiz solver: the Flask shell of main.py (secret      *)
(* check, validation, session table, timeout), the orchestrator of         *)
(* quiz_solver.py (render, extraction, keyword router, handlers, submit)   *)
(* and the oracle of llm_handler.py (provider selection, plan, generic     *)
(* solve with numeric coercion).                                           *)
(*                                                                         *)
(* Python strings are TLA+ strings; the text operations the code uses      *)
(* (lower, strip, split, substring containment, the three regular          *)
(* expressions, int() and float()) are computed character by character.    *)
(***************************************************************************)
EXTENDS Integers, Sequences, FiniteSets, TLC

VARIABLES
    now,              \* time.time(), in seconds
    active_sessions,  \* main.py active_sessions: email -> reference of a session dict (0: no entry)
    heap,             \* the session dicts ever allocated: reference -> [start_time, attempts]
    req,              \* the /quiz requests: request -> its position in quiz() and its locals
    ticks,            \* how many times the clock has advanced
    fin,              \* the input of the function under check (pure-function specifications)
    fout,             \* its result
    fpc               \* "ready" before the function is applied, "done" after

vars == <<now, active_sessions, heap, req, ticks, fin, fout, fpc>>

serverVars == <<now, active_sessions, heap, req, ticks>>

funVars == <<fin, fout, fpc>>

(***************************************************************************)
(* Python values: None, str, int, float, dict.                             *)
(***************************************************************************)
None == [type |-> "none"]

Str(s) == [type |-> "str", s |-> s]

IntV(n) == [type |-> "int", n |-> n]

\* A finite float m * 10^e, m without trailing zeros (0.0 is m = 0, e = 0).
FloatV(m, e) == [type |-> "float", m |-> m, e |-> e]

\* float('inf'), float('-inf'), float('nan')
FloatSpecial(s) == [type |-> "float", special |-> s]

Dict(d) == [type |-> "dict", d |-> d]

(***************************************************************************)
(* str operations                                                          *)
(***************************************************************************)
Min(a, b) == IF a < b THEN a ELSE b

\* the element of a one-element set.  Only({F(v) : v \in {e}}) is F(e) with e
\* computed once, where F(e) alone would compute e at each use of its parameter.
Only(S) == CHOOSE v \in S : TRUE

\* s[i] (1-based), "" outside the string
Ch(s, i) == IF i >= 1 /\ i <= Len(s) THEN SubSeq(s, i, i) ELSE ""

\* s[i-1:j] in Python terms: the characters i..j, clipped to the string
Slice(s, i, j) == SubSeq(s, i, Min(j, Len(s)))

\* k in s
Contains(s, k) == \E i \in 1..(Len(s) - Len(k) + 1) : SubSeq(s, i, i + Len(k) - 1) = k

StartsAt(s, i, k) == i + Len(k) - 1 <= Len(s) /\ SubSeq(s, i, i + Len(k) - 1) = k

StartsWith(s, k) == StartsAt(s, 1, k)

EndsWith(s, k) == Len(k) <= Len(s) /\ SubSeq(s, Len(s) - Len(k) + 1, Len(s)) = k

UpperLetters == "ABCDEFGHIJKLMNOPQRSTUVWXYZ"

LowerLetters == "abcdefghijklmnopqrstuvwxyz"

\* the lower-case letter of each upper-case letter
LowerOf == [c \in {Ch(UpperLetters, i) : i \in 1..Len(UpperLetters)} |->
              Ch(LowerLetters, CHOOSE i \in 1..Len(UpperLetters) : Ch(UpperLetters, i) = c)]

LowerChar(c) == IF c \in DOMAIN LowerOf THEN LowerOf[c] ELSE c

RECURSIVE Lower(_)
\* s.lower()
Lower(s) == IF s = "" THEN "" ELSE LowerChar(Ch(s, 1)) \o Lower(Tail(s))

\* the characters \s matches and strip() removes
IsSpace(c) == c \in {" ", "\t", "\n", "\r", "\f"}

RECURSIVE LStrip(_)
LStrip(s) == IF s # "" /\ IsSpace(Ch(s, 1)) THEN LStrip(Tail(s)) ELSE s

RECURSIVE RStrip(_)
RStrip(s) ==
    IF s # "" /\ IsSpace(Ch(s, Len(s))) THEN RStrip(SubSeq(s, 1, Len(s) - 1)) ELSE s

\* s.strip()
Strip(s) == RStrip(LStrip(s))

RECURSIVE SplitFrom(_, _, _)
\* the pieces of s from position i on, the current piece starting at `start`
SplitFrom(s, start, i) ==
    IF i > Len(s) THEN <<SubSeq(s, start, Len(s))>>
    ELSE IF Ch(s, i) = "\n" THEN <<SubSeq(s, start, i - 1)>> \o SplitFrom(s, i + 1, i + 1)
    ELSE SplitFrom(s, start, i + 1)

\* s.split("\n")
SplitLines(s) == SplitFrom(s, 1, 1)

(***************************************************************************)
(* The regular expressions of quiz_solver.py                               *)
(***************************************************************************)
\* https?:// at position i: the length of the scheme matched, 0 if none
SchemeAt(s, i) ==
    IF StartsAt(s, i, "https://") THEN 8
    ELSE IF StartsAt(s, i, "http://") THEN 7
    ELSE 0

\* r"https?://[^\s\"]" at position i: the length of the match, 0 if none.
\* The class is not repeated: the match is the scheme and ONE more character.
UrlHeadAt(s, i) ==
    LET n == SchemeAt(s, i)
        c == Ch(s, i + n)
    IN  IF n > 0 /\ c # "" /\ ~IsSpace(c) /\ c # "\"" THEN n + 1 ELSE 0

RECURSIVE FindUrlHeads(_, _)
\* re.findall(r"https?://[^\s\"]", s) from position i on: matches, left to right
FindUrlHeads(s, i) ==
    IF i > Len(s) THEN <<>>
    ELSE LET n == UrlHeadAt(s, i)
         IN  IF n > 0 THEN <<SubSeq(s, i, i + n - 1)>> \o FindUrlHeads(s, i + n)
             ELSE FindUrlHeads(s, i + 1)

FileExts == <<"pdf", "csv", "xlsx", "json">>

\* \.(pdf|csv|xlsx|json) at position j: the index of the alternative, 0 if none
ExtAt(s, j) ==
    IF Ch(s, j) # "." THEN 0
    ELSE IF \E k \in 1..Len(FileExts) : StartsAt(s, j + 1, FileExts[k])
         THEN CHOOSE k \in 1..Len(FileExts) :
                /\ StartsAt(s, j + 1, FileExts[k])
                /\ \A l \in 1..(k - 1) : ~StartsAt(s, j + 1, FileExts[l])
         ELSE 0

RECURSIVE LazyExt(_, _)
\* .*?\.(pdf|csv|xlsx|json) from position j: the position of the first dot that
\* starts an extension with no line break before it, 0 if none ('.' excludes \n)
LazyExt(s, j) ==
    IF j > Len(s) THEN 0
    ELSE IF ExtAt(s, j) > 0 THEN j
    ELSE IF Ch(s, j) = "\n" THEN 0
    ELSE LazyExt(s, j + 1)

RECURSIVE FindFileExts(_, _)
\* re.findall(r"https?://.*?\.(pdf|csv|xlsx|json)", s): with one group in the
\* pattern, findall returns the GROUP of each match, not the match
FindFileExts(s, i) ==
    IF i > Len(s) THEN <<>>
    ELSE LET n == SchemeAt(s, i)
             j == IF n > 0 THEN LazyExt(s, i + n) ELSE 0
         IN  IF j > 0
             THEN <<FileExts[ExtAt(s, j)]>>
                    \o FindFileExts(s, j + 1 + Len(FileExts[ExtAt(s, j)]))
             ELSE FindFileExts(s, i + 1)

\* r"https?://[^\s]" at position i: the length of the match, 0 if none
ApiHeadAt(s, i) ==
    LET n == SchemeAt(s, i)
        c == Ch(s, i + n)
    IN  IF n > 0 /\ c # "" /\ ~IsSpace(c) THEN n + 1 ELSE 0

\* re.search(r"https?://[^\s]", s): the first match, None if there is none
SearchApiUrl(s) ==
    IF \E i \in 1..Len(s) : ApiHeadAt(s, i) > 0
    THEN LET i == CHOOSE i \in 1..Len(s) :
                    ApiHeadAt(s, i) > 0 /\ \A k \in 1..(i - 1) : ApiHeadAt(s, k) = 0
         IN  Str(SubSeq(s, i, i + ApiHeadAt(s, i) - 1))
    ELSE None

(***************************************************************************)
(* QuizSolver.extract_question, QuizSolver.extract_submit_url              *)
(***************************************************************************)
QuestionPrefixLen == 500

\* the first line that, stripped, starts with "Q" and that holds a "."
FirstQuestionLine(lines) ==
    LET hit(k) == \E line \in {lines[k]} :
                    StartsWith(Strip(line), "Q") /\ Contains(line, ".")
    IN  IF \E k \in 1..Len(lines) : hit(k)
        THEN Str(Strip(lines[CHOOSE k \in 1..Len(lines) :
                                hit(k) /\ \A l \in 1..(k - 1) : ~hit(l)]))
        ELSE None

extract_question(text) ==
    Only({IF found # None THEN found.s ELSE Slice(text, 1, QuestionPrefixLen) :
            found \in {Only({FirstQuestionLine(lines) : lines \in {SplitLines(text)}})}})

IsSubmitUrl(u) == \E l \in {Lower(u)} : Contains(l, "submit") \/ Contains(l, "answer")

extract_submit_url(html) ==
    LET urls == FindUrlHeads(html, 1)
        submit_urls == SelectSeq(urls, IsSubmitUrl)
    IN  IF submit_urls # <<>> THEN Str(submit_urls[1]) ELSE None

(***************************************************************************)
(* Python's int(str) and float(str)                                        *)
(***************************************************************************)
Digits == "0123456789"

IsDigit(c) == c # "" /\ Contains(Digits, c)

DigitVal(c) == (CHOOSE i \in 1..Len(Digits) : Ch(Digits, i) = c) - 1

\* digit ("_"? digit)* : a run of digits, single underscores between digits allowed
IsDigitPart(s) ==
    /\ s # ""
    /\ IsDigit(Ch(s, 1))
    /\ IsDigit(Ch(s, Len(s)))
    /\ \A i \in 1..Len(s) : IsDigit(Ch(s, i)) \/ (Ch(s, i) = "_" /\ Ch(s, i + 1) # "_")

RECURSIVE DigitsValue(_)
\* the number a digit part denotes (underscores skipped)
DigitsValue(s) ==
    IF s = "" THEN 0
    ELSE LET c == Ch(s, Len(s))
             rest == SubSeq(s, 1, Len(s) - 1)
         IN  IF c = "_" THEN DigitsValue(rest) ELSE DigitsValue(rest) * 10 + DigitVal(c)

RECURSIVE CountDigits(_)
CountDigits(s) ==
    IF s = "" THEN 0 ELSE (IF IsDigit(Ch(s, 1)) THEN 1 ELSE 0) + CountDigits(Tail(s))

HasSign(s) == Ch(s, 1) \in {"+", "-"}

Unsigned(s) == IF HasSign(s) THEN Tail(s) ELSE s

SignOf(s) == IF Ch(s, 1) = "-" THEN -1 ELSE 1

\* int(s) does not raise ValueError
IntParses(s) == IsDigitPart(Unsigned(Strip(s)))

\* int(s), where IntParses(s)
IntOf(s) == SignOf(Strip(s)) * DigitsValue(Unsigned(Strip(s)))

\* the position of the first c in s, 0 if none
IndexOf(s, c) ==
    IF Contains(s, c)
    THEN CHOOSE i \in 1..Len(s) : Ch(s, i) = c /\ \A k \in 1..(i - 1) : Ch(s, k) # c
    ELSE 0

\* the part of a mantissa before its point, and the part after it
IntPart(m) == IF IndexOf(m, ".") = 0 THEN m ELSE SubSeq(m, 1, IndexOf(m, ".") - 1)

FracPart(m) == IF IndexOf(m, ".") = 0 THEN "" ELSE SubSeq(m, IndexOf(m, ".") + 1, Len(m))

\* digitpart [. [digitpart]] | . digitpart, given the two parts
PartsParse(ip, fp) ==
    /\ ip = "" \/ IsDigitPart(ip)
    /\ fp = "" \/ IsDigitPart(fp)
    /\ ip # "" \/ fp # ""

\* the mantissa of a float literal
MantissaParses(m) == PartsParse(IntPart(m), FracPart(m))

ExponentParses(x) == IsDigitPart(Unsigned(x))

\* the position of the exponent marker of a float literal, 0 if none
ExpIndex(u) == IF Contains(u, "e") THEN IndexOf(u, "e") ELSE IndexOf(u, "E")

\* the mantissa of an unsigned float literal, and the text of its exponent
MantissaOf(u) == IF ExpIndex(u) = 0 THEN u ELSE SubSeq(u, 1, ExpIndex(u) - 1)

ExponentOf(u) == IF ExpIndex(u) = 0 THEN "" ELSE SubSeq(u, ExpIndex(u) + 1, Len(u))

SpecialFloats == {"inf", "infinity", "nan"}

\* an unsigned float literal is well formed
UnsignedFloatParses(u) ==
    \/ Lower(u) \in SpecialFloats
    \/ /\ MantissaParses(MantissaOf(u))
       /\ ExpIndex(u) = 0 \/ ExponentParses(ExponentOf(u))

\* float(s) does not raise ValueError
FloatParses(s) == UnsignedFloatParses(Unsigned(Strip(s)))

RECURSIVE Normalize(_, _)
\* m * 10^e with the trailing zeros of m moved into e
Normalize(m, e) ==
    IF m = 0 THEN FloatV(0, 0)
    ELSE IF m % 10 = 0 THEN Normalize(m \div 10, e + 1)
    ELSE FloatV(m, e)

Signed(sign, f) == FloatV(sign * f.m, f.e)

\* the value of the exponent text: 0 if there is none
ExpValue(ex) == IF ex = "" THEN 0 ELSE SignOf(ex) * DigitsValue(Unsigned(ex))

\* sign * ip.fp * 10^e10
Scale(sign, ip, fp, e10) ==
    Signed(sign, Normalize(DigitsValue(ip \o fp), e10 - CountDigits(fp)))

\* the value of a float literal of this sign and unsigned text
SignedFloatOf(sign, u) ==
    IF Lower(u) \in SpecialFloats
    THEN FloatSpecial(IF Lower(u) = "nan" THEN "nan"
                      ELSE IF sign = -1 THEN "-inf" ELSE "inf")
    ELSE Scale(sign, IntPart(MantissaOf(u)), FracPart(MantissaOf(u)), ExpValue(ExponentOf(u)))

\* float(s), where FloatParses(s)
FloatOf(s) ==
    Only({SignedFloatOf(SignOf(t), Unsigned(t)) : t \in {Strip(s)}})

(***************************************************************************)
(* LLMHandler                                                              *)
(***************************************************************************)
NoClient == "none"

NoLLMAnswer == "Error: No LLM available"

\* __init__ without the reset of self.client when a constructor fails
LLMInit_keeps_failed_client(env) ==
    [client |-> IF env.openai_key THEN "openai"
                ELSE IF env.anthropic_key THEN "anthropic" ELSE NoClient,
     provider |-> IF env.openai_key THEN "openai"
                  ELSE IF env.anthropic_key THEN "anthropic" ELSE "none"]

\* __init__ naming the provider before its client is constructed
LLMInit_provider_before_client(env) ==
    [client |-> IF env.openai_key /\ env.openai_ok THEN "openai"
                ELSE IF env.anthropic_key /\ env.anthropic_ok THEN "anthropic"
                ELSE NoClient,
     provider |-> IF env.openai_key THEN "openai"
                  ELSE IF env.anthropic_key THEN "anthropic" ELSE "none"]

\* LLMHandler.__init__: env says which API keys are set and whether each
\* client can be constructed
LLMInit(env) ==
    LET c1 == IF env.openai_key /\ env.openai_ok THEN "openai" ELSE NoClient
        p1 == IF env.openai_key /\ env.openai_ok THEN "openai" ELSE "none"
        try2 == c1 = NoClient /\ env.anthropic_key
        c2 == IF try2 THEN (IF env.anthropic_ok THEN "anthropic" ELSE NoClient) ELSE c1
        p2 == IF try2 /\ env.anthropic_ok THEN "anthropic" ELSE p1
    IN  [client |-> c2, provider |-> p2]

\* the number parsing at the end of solve_generic: float() if the answer has a
\* '.', int() otherwise, the answer itself on ValueError
ParseNumber(answer) ==
    Only({IF Contains(a, ".")
          THEN IF FloatParses(a) THEN FloatOf(a) ELSE Str(a)
          ELSE IF IntParses(a) THEN IntV(IntOf(a)) ELSE Str(a) : a \in {answer}})

\* LLMHandler.solve_generic: reply is what the provider's completion call does,
\* [kind |-> "text", text |-> s] or [kind |-> "raise", msg |-> m]
solve_generic(llm, question, reply) ==
    IF llm.client = NoClient THEN Str(NoLLMAnswer)
    ELSE IF llm.provider \in {"openai", "anthropic"} /\ reply.kind = "raise"
         THEN Str("Error: " \o reply.msg)
         ELSE ParseNumber(IF llm.provider \in {"openai", "anthropic"}
                          THEN Strip(reply.text)
                          ELSE "No provider")

\* LLMHandler.analyze_data, for data that json.dumps accepts: the reply is
\* stripped and returned as it is
analyze_data(llm, instruction, reply) ==
    IF llm.client = NoClient THEN Str(NoLLMAnswer)
    ELSE IF llm.provider \in {"openai", "anthropic"}
         THEN IF reply.kind = "raise" THEN Str("Error: " \o reply.msg)
              ELSE Str(Strip(reply.text))
         ELSE Str("No provider")

DefaultPlan(step) == Dict([steps |-> <<step>>])

\* plan_solution letting the JSONDecodeError reach its caller
plan_solution_propagates_parse_error(llm, question, reply) ==
    IF llm.client = NoClient THEN DefaultPlan("Unable to plan - no LLM")
    ELSE IF llm.provider \in {"openai", "anthropic"}
         THEN IF reply.kind = "raise" THEN DefaultPlan("Error in planning")
              ELSE IF reply.kind = "notjson" THEN [type |-> "raised"]
              ELSE reply.value
         ELSE DefaultPlan("No provider")

\* LLMHandler.plan_solution: reply is [kind |-> "raise"], [kind |-> "notjson"]
\* (json.loads raises JSONDecodeError) or [kind |-> "json", value |-> v]
plan_solution(llm, question, reply) ==
    IF llm.client = NoClient THEN DefaultPlan("Unable to plan - no LLM")
    ELSE IF llm.provider \in {"openai", "anthropic"}
         THEN IF reply.kind = "raise" THEN DefaultPlan("Error in planning")
              ELSE IF reply.kind = "notjson" THEN DefaultPlan("Generic approach")
              ELSE reply.value
         ELSE DefaultPlan("No provider")

(***************************************************************************)
(* QuizSolver.  A world w is what the calls that leave the process do:     *)
(*   w.page    render_page's result, [html, text], each None or a str      *)
(*   w.keys    the API keys set and whether each client can be built       *)
(*   w.plan    the provider's reply to plan_solution's request             *)
(*   w.oracle  the provider's reply to solve_generic's request             *)
(*   w.get     "ok" or "raise": what a well-formed GET does                *)
(*   w.parse   "ok" or "raise": PdfReader / read_csv / read_excel /        *)
(*             response.json() on the bytes fetched                        *)
(*   w.data    the text the parsed content is rendered to                  *)
(* A handler's result is [ans, log]: the value returned and the calls      *)
(* made, in order.                                                         *)
(***************************************************************************)
ExcerptLen == 2000

Event(op, arg) == [op |-> op, arg |-> arg]

\* not v, for v None or a str
Falsy(v) == v = None \/ v = Str("")

\* requests.get(url): a URL without a scheme raises MissingSchema before any
\* network traffic; otherwise the world decides
RequestsGet(url, w) == IF SchemeAt(url, 1) = 0 THEN "raise" ELSE w.get

\* self.llm.solve_generic(prompt), with the call logged
CallSolveGeneric(llm, prompt, w) ==
    [ans |-> solve_generic(llm, prompt, w.oracle),
     log |-> <<Event("solve_generic", prompt)>>]

process_pdf(llm, question, w) ==
    IF w.parse = "raise" THEN [ans |-> Str("PDF processing failed"), log |-> <<>>]
    ELSE CallSolveGeneric(llm, question \o "\nContent:\n" \o Slice(w.data, 1, ExcerptLen), w)

process_csv(llm, question, w) ==
    IF w.parse = "raise" THEN [ans |-> Str("CSV processing failed"), log |-> <<>>]
    ELSE CallSolveGeneric(llm, question \o "\nData:\n" \o Slice(w.data, 1, ExcerptLen), w)

process_excel(llm, question, w) ==
    IF w.parse = "raise" THEN [ans |-> Str("Excel processing failed"), log |-> <<>>]
    ELSE CallSolveGeneric(llm, question \o "\nData:\n" \o Slice(w.data, 1, ExcerptLen), w)

\* a step followed by another: the logs concatenated, the second answer kept
Then(first, second) == [ans |-> second.ans, log |-> first \o second.log]

\* handle_file_download, once a file URL is found
DownloadFile(llm, question, file_url, w) ==
    Then(<<Event("get", file_url)>>,
         IF RequestsGet(file_url, w) = "raise"
         THEN [ans |-> Str("Unable to process file"), log |-> <<>>]
         ELSE IF EndsWith(file_url, ".pdf") THEN process_pdf(llm, question, w)
         ELSE IF EndsWith(file_url, ".csv") THEN process_csv(llm, question, w)
         ELSE IF EndsWith(file_url, ".xlsx") THEN process_excel(llm, question, w)
         ELSE [ans |-> None, log |-> <<>>])

handle_file_download(llm, question, html, w) ==
    Only({IF urls # <<>> THEN DownloadFile(llm, question, urls[1], w)
          ELSE [ans |-> None, log |-> <<>>] : urls \in {FindFileExts(html, 1)}})

\* handle_api_call, once a URL is found in the question
CallApi(llm, question, api_url, w) ==
    Then(<<Event("get", api_url)>>,
         IF RequestsGet(api_url, w) = "raise" \/ w.parse = "raise"
         THEN [ans |-> Str("API call failed"), log |-> <<>>]
         ELSE CallSolveGeneric(llm,
                question \o "\nResponse:\n" \o Slice(w.data, 1, ExcerptLen), w))

handle_api_call(llm, question, w) ==
    Only({IF api_match # None THEN CallApi(llm, question, api_match.s, w)
          ELSE [ans |-> None, log |-> <<>>] : api_match \in {SearchApiUrl(question)}})

handle_data_analysis(llm, question, w) == CallSolveGeneric(llm, question, w)

handle_visualization(llm, question, w) == CallSolveGeneric(llm, question, w)

\* any(x in question.lower() for x in keywords)
AnyIn(question, keywords) ==
    \E q \in {Lower(question)} : \E x \in keywords : Contains(q, x)

Handled(name, r) == [ans |-> r.ans, log |-> <<Event("handler", name)>> \o r.log]

\* execute_plan refusing to route under a plan that is not an object
execute_plan_needs_plan_object(llm, plan, question, html, w) ==
    IF plan.type # "dict" THEN [ans |-> None, log |-> <<>>]
    ELSE IF AnyIn(question, {"download", "file"})
    THEN Handled("FileDownload", handle_file_download(llm, question, html, w))
    ELSE IF AnyIn(question, {"api", "endpoint"})
    THEN Handled("ApiCall", handle_api_call(llm, question, w))
    ELSE IF AnyIn(question, {"sum", "average", "count", "analyze"})
    THEN Handled("DataAnalysis", handle_data_analysis(llm, question, w))
    ELSE IF AnyIn(question, {"chart", "graph"})
    THEN Handled("Visualization", handle_visualization(llm, question, w))
    ELSE Handled("Default", CallSolveGeneric(llm, question, w))

\* execute_plan with the data analysis rule tried first
execute_plan_analysis_first(llm, plan, question, html, w) ==
    IF AnyIn(question, {"sum", "average", "count", "analyze"})
    THEN Handled("DataAnalysis", handle_data_analysis(llm, question, w))
    ELSE IF AnyIn(question, {"download", "file"})
    THEN Handled("FileDownload", handle_file_download(llm, question, html, w))
    ELSE IF AnyIn(question, {"api", "endpoint"})
    THEN Handled("ApiCall", handle_api_call(llm, question, w))
    ELSE IF AnyIn(question, {"chart", "graph"})
    THEN Handled("Visualization", handle_visualization(llm, question, w))
    ELSE Handled("Default", CallSolveGeneric(llm, question, w))

execute_plan(llm, plan, question, html, w) ==
    IF AnyIn(question, {"download", "file"})
    THEN Handled("FileDownload", handle_file_download(llm, question, html, w))
    ELSE IF AnyIn(question, {"api", "endpoint"})
    THEN Handled("ApiCall", handle_api_call(llm, question, w))
    ELSE IF AnyIn(question, {"sum", "average", "count", "analyze"})
    THEN Handled("DataAnalysis", handle_data_analysis(llm, question, w))
    ELSE IF AnyIn(question, {"chart", "graph"})
    THEN Handled("Visualization", handle_visualization(llm, question, w))
    ELSE Handled("Default", CallSolveGeneric(llm, question, w))

\* QuizSolver.__init__ and QuizSolver.solve: [raised |-> TRUE] when solve raises
Solved(question, submit_url, plan, r) ==
    [raised |-> FALSE, answer |-> r.ans, log |-> r.log, question |-> question,
     submit_url |-> submit_url, plan |-> plan]

\* solve, once the page is rendered and the question extracted
SolveQuestion(llm, question, html, w) ==
    Only({Solved(question, extract_submit_url(html), plan,
                 execute_plan(llm, plan, question, html, w)) :
            plan \in {plan_solution(llm, question, w.plan)}})

solve(w) ==
    IF Falsy(w.page.html) \/ Falsy(w.page.text) THEN [raised |-> TRUE]
    ELSE Only({SolveQuestion(LLMInit(w.keys), question, w.page.html.s, w) :
                 question \in {extract_question(w.page.text.s)}})

\* submit_answer posting a second time when the first POST fails
submit_answer_retries(email, secret, url, answer, post) ==
    LET payload == [email |-> email, secret |-> secret, url |-> url, answer |-> answer]
    IN  [payload |-> payload,
         posts |-> IF post.kind = "raise" THEN <<payload, payload>> ELSE <<payload>>,
         result |-> IF post.kind = "raise" THEN Dict([error |-> post.msg])
                    ELSE Dict(post.body)]

\* QuizSolver.submit_answer: post is what requests.post and response.json() do,
\* [kind |-> "json", body |-> b] or [kind |-> "raise", msg |-> m]; posts are
\* the bodies handed to requests.post, in order
submit_answer(email, secret, url, answer, post) ==
    LET payload == [email |-> email, secret |-> secret, url |-> url, answer |-> answer]
    IN  [payload |-> payload,
         posts |-> <<payload>>,
         result |-> IF post.kind = "raise" THEN Dict([error |-> post.msg])
                    ELSE Dict(post.body)]

(***************************************************************************)
(* Inputs                                                                  *)
(***************************************************************************)
RECURSIVE StringsUpTo(_, _)
\* the strings of at most n characters of `alphabet`
StringsUpTo(alphabet, n) ==
    IF n = 0 THEN {""}
    ELSE LET shorter == StringsUpTo(alphabet, n - 1)
         IN  shorter \cup {s \o Ch(alphabet, i) : s \in shorter, i \in 1..Len(alphabet)}

RECURSIVE Concat(_)
Concat(fs) == IF fs = <<>> THEN "" ELSE Head(fs) \o Concat(Tail(fs))

RECURSIVE SeqsUpTo(_, _)
\* the sequences of at most n elements of S
SeqsUpTo(S, n) ==
    IF n = 0 THEN {<<>>}
    ELSE LET shorter == SeqsUpTo(S, n - 1)
         IN  shorter \cup {Append(q, x) : q \in shorter, x \in S}

MaxAnswerLen == 3

AnswerAlphabet == "70.e- "

\* what a provider may answer
AnswerTexts ==
    StringsUpTo(AnswerAlphabet, MaxAnswerLen)
        \cup {"42", "3.14", "42abc", "seven", "7.5", "1e5", "inf", "nan", "-Infinity",
              " 12 \n", "1_000", "5e-7", "No provider"}

OracleReplies ==
    {[kind |-> "text", text |-> t] : t \in AnswerTexts}
        \cup {[kind |-> "raise", msg |-> "Connection error."]}

\* which keys the environment sets, and whether each client can be constructed
KeyEnvs ==
    [openai_key : BOOLEAN, openai_ok : BOOLEAN, anthropic_key : BOOLEAN, anthropic_ok : BOOLEAN]

NoKeys ==
    [openai_key |-> FALSE, openai_ok |-> TRUE, anthropic_key |-> FALSE, anthropic_ok |-> TRUE]

OpenAIKey == [NoKeys EXCEPT !.openai_key = TRUE]

\* the OpenAI key is set but its client cannot be built; Anthropic's can
AnthropicFallback == [NoKeys EXCEPT !.openai_key = TRUE, !.openai_ok = FALSE, !.anthropic_key = TRUE]

\* both keys are set and neither client can be built
BrokenKeys ==
    [openai_key |-> TRUE, openai_ok |-> FALSE, anthropic_key |-> TRUE, anthropic_ok |-> FALSE]

\* no provider has valid credentials: each key is absent or its client fails
NoValidCredentials(env) ==
    /\ ~(env.openai_key /\ env.openai_ok)
    /\ ~(env.anthropic_key /\ env.anthropic_ok)

SomeQuestions == {"What is 2+2?", "download the file", ""}

WellFormedPlan ==
    Dict([steps |-> <<"fetch", "sum">>, data_sources |-> "page", processing |-> "add",
          expected_answer_type |-> "number"])

PlanReplies ==
    {[kind |-> "json", value |-> WellFormedPlan],
     [kind |-> "json", value |-> IntV(7)],
     [kind |-> "notjson"],
     [kind |-> "raise"]}

(***************************************************************************)
(* SpecOracle: an LLMHandler is constructed under some keys and asked      *)
(* once, for a generic answer or for a plan.                               *)
(***************************************************************************)
IdleServer ==
    /\ now = 0
    /\ active_sessions = <<>>
    /\ heap = <<>>
    /\ req = <<>>
    /\ ticks = 0

OracleInit ==
    /\ IdleServer
    /\ fin \in [keys : KeyEnvs, reply : OracleReplies \cup PlanReplies,
                question : SomeQuestions]
    /\ fout = None
    /\ fpc = "ready"

OracleSolve ==
    /\ fpc = "ready"
    /\ fin.reply \in OracleReplies
    /\ fpc' = "solved"
    /\ fout' = solve_generic(LLMInit(fin.keys), fin.question, fin.reply)
    /\ UNCHANGED <<fin, serverVars>>

OraclePlan ==
    /\ fpc = "ready"
    /\ fin.reply \in PlanReplies
    /\ fpc' = "planned"
    /\ fout' = plan_solution(LLMInit(fin.keys), fin.question, fin.reply)
    /\ UNCHANGED <<fin, serverVars>>

OracleAnalyze ==
    /\ fpc = "ready"
    /\ fin.reply \in OracleReplies
    /\ fpc' = "analyzed"
    /\ fout' = analyze_data(LLMInit(fin.keys), fin.question, fin.reply)
    /\ UNCHANGED <<fin, serverVars>>

OracleNext == OracleSolve \/ OraclePlan \/ OracleAnalyze

SpecOracle == OracleInit /\ [][OracleNext]_vars

(***************************************************************************)
(* SpecExtract: extract_submit_url applied to a markup assembled from      *)
(* fragments.                                                              *)
(***************************************************************************)
MaxFragments == 3

Fragments ==
    {"https://a.b/submit", "http://x.y/Answer?q=1", "https://a.b/data.csv", "https://s",
     "\"", " ", "submit", "<a href=\""}

Markups == {Concat(fs) : fs \in SeqsUpTo(Fragments, MaxFragments)}

ExtractInit ==
    /\ IdleServer
    /\ fin \in Markups
    /\ fout = None
    /\ fpc = "ready"

ExtractSubmitUrl ==
    /\ fpc = "ready"
    /\ fpc' = "extracted"
    /\ fout' = extract_submit_url(fin)
    /\ UNCHANGED <<fin, serverVars>>

ExtractNext == ExtractSubmitUrl

SpecExtract == ExtractInit /\ [][ExtractNext]_vars

(***************************************************************************)
(* SpecSolve: one accepted request's pipeline in one world: solve, then    *)
(* submit_answer with what solve returned (main.py, lines 80-96).          *)
(***************************************************************************)
CsvUrl == "https://example.com/data.csv"

Htmls ==
    {"<p>quiz</p>",
     "<a href=\"" \o CsvUrl \o "\">data</a>",
     "<a href=\"https://example.com/report.pdf\">report</a>",
     "see https://example.com/book.xlsx\nand https://example.com/submit",
     "<a href=\"https://example.com/q.json\">q</a> <a href=\"" \o CsvUrl \o "\">d</a>"}

Texts ==
    {"please download the file and analyze it",
     "What is the sum? download file",
     "Q1. Count the rows of my PROFILE.\nGood luck",
     "call the API at https://api.example.com/v1 and count the users",
     "which endpoint has the largest average",
     "Analyze the table and give the SUM",
     "draw a chart of the counts",
     "plot a Graph",
     "What is 2+2?",
     "  \nQ7. What is the capital of France?"}

Pages ==
    {[html |-> None, text |-> None],
     [html |-> Str(""), text |-> Str("What is 2+2?")],
     [html |-> Str("<p>quiz</p>"), text |-> Str("")]}
        \cup {[html |-> Str(h), text |-> Str(t)] : h \in Htmls, t \in Texts}

SomeKeys == {NoKeys, OpenAIKey, AnthropicFallback, BrokenKeys}

SomeReplies ==
    {[kind |-> "text", text |-> " 42\n"],
     [kind |-> "text", text |-> "Paris"],
     [kind |-> "raise", msg |-> "Connection error."]}

Worlds ==
    [page : Pages, keys : SomeKeys, plan : PlanReplies, oracle : SomeReplies,
     get : {"ok", "raise"}, parse : {"ok", "raise"}, data : {"a,b\n1,2"}]

PostOutcomes ==
    {[kind |-> "json", body |-> [correct |-> TRUE]],
     [kind |-> "raise", msg |-> "Read timed out."]}

QuizEmail == "a@example.com"

QuizUrl == "https://quiz.example.com/q1"

SECRET == "s3cr3t"

SolveInit ==
    /\ IdleServer
    /\ fin \in Worlds
    /\ fout = [solved |-> None, submitted |-> None, post |-> None]
    /\ fpc = "ready"

\* answer = solver.solve(quiz_url): an exception ends the request
SolveCall ==
    /\ fpc = "ready"
    /\ \E r \in {solve(fin)} :
         /\ fpc' = IF r.raised THEN "failed" ELSE "solved"
         /\ fout' = [fout EXCEPT !.solved = r]
    /\ UNCHANGED <<fin, serverVars>>

\* result = solver.submit_answer(email, SECRET, quiz_url, answer)
SolveSubmit ==
    /\ fpc = "solved"
    /\ fpc' = "submitted"
    /\ \E post \in PostOutcomes :
         fout' = [fout EXCEPT !.post = post, !.submitted =
                    submit_answer(QuizEmail, SECRET, QuizUrl, fout.solved.answer, post)]
    /\ UNCHANGED <<fin, serverVars>>

SolveNext == SolveCall \/ SolveSubmit

SpecSolve == SolveInit /\ [][SolveNext]_vars

(***************************************************************************)
(* Spec: the Flask shell.  Requests to /quiz arrive and are served by      *)
(* threads that interleave between the steps below; the clock advances.    *)
(* active_sessions maps an email to the session dict now stored for it;    *)
(* the dicts live in heap, so that a thread holding the dict it looked up  *)
(* keeps writing to that dict after a timeout has stored a new one.        *)
(***************************************************************************)
MaxReq == 2

MaxTicks == 2

TickStep == 180

Timeout == 180

Requests == 1..MaxReq

Emails == {QuizEmail, "b@example.com"}

\* an object with these values under 'secret', 'email' and 'url', None for a
\* key it does not have
Body(secret, email, url) ==
    [kind |-> "json", secret |-> secret, email |-> email, url |-> url]

\* request.get_json(): a body that is no JSON, a falsy JSON value such as {},
\* a truthy JSON value that is no object, or an object: with the secret and
\* any combination of email and url, or with a wrong or missing secret
Bodies ==
    {[kind |-> "invalid"], [kind |-> "falsy"], [kind |-> "nondict"]}
        \cup {Body(Str(SECRET), email, url) :
                email \in {Str(e) : e \in Emails} \cup {None}, url \in {Str(QuizUrl), None}}
        \cup {Body(Str("wrong"), Str(QuizEmail), Str(QuizUrl)),
              Body(None, Str(QuizEmail), Str(QuizUrl)),
              Body(Str("wrong"), None, None)}

\* a world with this page, these keys and this provider reply, where the GET
\* and the parse succeed
World(page, keys, oracle) ==
    [page |-> page, keys |-> keys, plan |-> [kind |-> "notjson"], oracle |-> oracle,
     get |-> "ok", parse |-> "ok", data |-> "a,b\n1,2"]

\* the worlds a request's solve may meet: the page cannot be rendered; a
\* download question on a page without a file, no provider; a plain question
\* answered by OpenAI
ServerWorlds ==
    <<World([html |-> None, text |-> None], NoKeys,
            [kind |-> "raise", msg |-> "Connection error."]),
      World([html |-> Str("<p>quiz</p>"), text |-> Str("What is the sum? download file")],
            NoKeys, [kind |-> "raise", msg |-> "Connection error."]),
      World([html |-> Str("<p>quiz</p>"), text |-> Str("What is 2+2?")],
            OpenAIKey, [kind |-> "text", text |-> " 42\n"])>>

\* what solver.solve does in each of these worlds
ServerSolves == [i \in DOMAIN ServerWorlds |-> solve(ServerWorlds[i])]

IdleRequest ==
    [pc |-> "idle", body |-> [kind |-> "none"], status |-> 0, calls |-> <<>>,
     world |-> 0, answer |-> None, result |-> None, win |-> 0, ref |-> 0, cnt |-> 0]

Init ==
    /\ now = 0
    /\ ticks = 0
    /\ active_sessions = [e \in Emails |-> 0]
    /\ heap = <<>>
    /\ req = [r \in Requests |-> IdleRequest]
    /\ fin = None
    /\ fout = None
    /\ fpc = "server"

\* the request ends with an HTTP status
Respond(r, code) == [req EXCEPT ![r].pc = "done", ![r].status = code]

\* a new session dict {'start_time': time.time(), 'attempts': 0} stored for key
StoreNewSession(key) ==
    /\ heap' = Append(heap, [start_time |-> now, attempts |-> 0])
    /\ active_sessions' = [active_sessions EXCEPT ![key] = Len(heap) + 1]

\* verify_secret comparing the secret only when the body carries one
Rejection_missing_secret_passes(data) ==
    IF data.kind \in {"invalid", "falsy"} THEN 400
    ELSE IF data.kind = "nondict" THEN 500
    ELSE IF data.secret # None /\ data.secret # Str(SECRET) THEN 403
    ELSE IF Falsy(data.email) \/ Falsy(data.url) THEN 400
    ELSE 0

\* verify_secret and the head of quiz() on a body: the status of the rejection,
\* 0 when the request goes on to the session table.  Nothing here reads or
\* writes shared state.
Rejection(data) ==
    IF data.kind \in {"invalid", "falsy"} THEN 400
    ELSE IF data.kind = "nondict" THEN 500
    ELSE IF data.secret # Str(SECRET) THEN 403
    ELSE IF Falsy(data.email) \/ Falsy(data.url) THEN 400
    ELSE 0

\* a POST /quiz arrives and passes through verify_secret and the checks of
\* email and url
Receive(r) ==
    /\ req[r].pc = "idle"
    /\ \E data \in Bodies :
         req' = IF Rejection(data) # 0
                THEN [Respond(r, Rejection(data)) EXCEPT ![r].body = data]
                ELSE [req EXCEPT ![r].pc = "session", ![r].body = data]
    /\ UNCHANGED <<now, ticks, active_sessions, heap, funVars>>

\* quiz(): the session of the email is created if there is none
EnsureSession(r) ==
    /\ req[r].pc = "session"
    /\ LET session_key == req[r].body.email.s
       IN  IF active_sessions[session_key] = 0
           THEN StoreNewSession(session_key)
           ELSE UNCHANGED <<active_sessions, heap>>
    /\ req' = [req EXCEPT ![r].pc = "timeout"]
    /\ UNCHANGED <<now, ticks, funVars>>

\* the timeout check storing a session that keeps the old start_time
CheckTimeout_keeps_start_time(r) ==
    /\ req[r].pc = "timeout"
    /\ LET session_key == req[r].body.email.s
           start_time == heap[active_sessions[session_key]].start_time
       IN  IF now - start_time > Timeout
           THEN /\ heap' = Append(heap, [start_time |-> start_time, attempts |-> 0])
                /\ active_sessions' = [active_sessions EXCEPT ![session_key] = Len(heap) + 1]
                /\ req' = Respond(r, 408)
           ELSE /\ req' = [req EXCEPT ![r].pc = "solve",
                                      ![r].win = active_sessions[session_key]]
                /\ UNCHANGED <<active_sessions, heap>>
    /\ UNCHANGED <<now, ticks, funVars>>

\* the timeout check rejecting without storing a new session
CheckTimeout_no_reset(r) ==
    /\ req[r].pc = "timeout"
    /\ LET session_key == req[r].body.email.s
           elapsed == now - heap[active_sessions[session_key]].start_time
       IN  req' = IF elapsed > Timeout THEN Respond(r, 408)
                  ELSE [req EXCEPT ![r].pc = "solve",
                                   ![r].win = active_sessions[session_key]]
    /\ UNCHANGED <<now, ticks, active_sessions, heap, funVars>>

\* quiz(): a session older than the timeout is replaced and the request
\* rejected; win notes the session dict under which a request was accepted
CheckTimeout(r) ==
    /\ req[r].pc = "timeout"
    /\ LET session_key == req[r].body.email.s
           elapsed == now - heap[active_sessions[session_key]].start_time
       IN  IF elapsed > Timeout
           THEN /\ StoreNewSession(session_key)
                /\ req' = Respond(r, 408)
           ELSE /\ req' = [req EXCEPT ![r].pc = "solve",
                                      ![r].win = active_sessions[session_key]]
                /\ UNCHANGED <<active_sessions, heap>>
    /\ UNCHANGED <<now, ticks, funVars>>

\* quiz(): solver = QuizSolver(); answer = solver.solve(quiz_url); an exception
\* is logged, raised again and answered with 500
Solve(r) ==
    /\ req[r].pc = "solve"
    /\ \E w \in DOMAIN ServerWorlds : \E s \in {ServerSolves[w]} :
         req' = IF s.raised
                THEN [Respond(r, 500) EXCEPT ![r].world = w,
                        ![r].calls = Append(@, Event("solve", req[r].body.url))]
                ELSE [req EXCEPT ![r].pc = "submit", ![r].world = w, ![r].answer = s.answer,
                                 ![r].calls = Append(@, Event("solve", req[r].body.url))]
    /\ UNCHANGED <<now, ticks, active_sessions, heap, funVars>>

\* quiz() skipping the submission of an answer that is None
Submit_skips_none(r) ==
    /\ req[r].pc = "submit"
    /\ \E post \in PostOutcomes :
         \E sub \in {submit_answer(req[r].body.email.s, SECRET, req[r].body.url.s,
                                   req[r].answer, post)} :
           req' = IF req[r].answer = None THEN [req EXCEPT ![r].pc = "incr"]
                  ELSE [req EXCEPT ![r].pc = "incr",
                                   ![r].calls = Append(@, Event("submit", sub.payload)),
                                   ![r].result = sub.result]
    /\ UNCHANGED <<now, ticks, active_sessions, heap, funVars>>

\* quiz(): result = solver.submit_answer(email, SECRET, quiz_url, answer)
Submit(r) ==
    /\ req[r].pc = "submit"
    /\ \E post \in PostOutcomes :
         \E sub \in {submit_answer(req[r].body.email.s, SECRET, req[r].body.url.s,
                                   req[r].answer, post)} :
           req' = [req EXCEPT ![r].pc = "incr",
                              ![r].calls = Append(@, Event("submit", sub.payload)),
                              ![r].result = sub.result]
    /\ UNCHANGED <<now, ticks, active_sessions, heap, funVars>>

\* the increment looking up the session stored last, whatever its key
IncrRead_latest_session(r) ==
    /\ req[r].pc = "incr"
    /\ req' = [req EXCEPT ![r].pc = "store", ![r].ref = Len(heap),
                           ![r].cnt = heap[Len(heap)].attempts]
    /\ UNCHANGED <<now, ticks, active_sessions, heap, funVars>>

\* quiz(): active_sessions[session_key]['attempts'] += 1, first half: the dict
\* is looked up and its counter read
IncrRead(r) ==
    /\ req[r].pc = "incr"
    /\ LET ref == active_sessions[req[r].body.email.s]
       IN  req' = [req EXCEPT ![r].pc = "store", ![r].ref = ref,
                              ![r].cnt = heap[ref].attempts]
    /\ UNCHANGED <<now, ticks, active_sessions, heap, funVars>>

\* second half: the counter read, plus one, is stored into the dict looked up;
\* the request returns the result with 200
IncrWrite(r) ==
    /\ req[r].pc = "store"
    /\ heap' = [heap EXCEPT ![req[r].ref].attempts = req[r].cnt + 1]
    /\ req' = [Respond(r, 200) EXCEPT ![r].ref = 0, ![r].cnt = 0]
    /\ UNCHANGED <<now, ticks, active_sessions, funVars>>

\* time passes
Tick ==
    /\ ticks < MaxTicks
    /\ ticks' = ticks + 1
    /\ now' = now + TickStep
    /\ UNCHANGED <<active_sessions, heap, req, funVars>>

Next ==
    \/ Tick
    \/ \E r \in Requests :
         \/ Receive(r)
         \/ EnsureSession(r)
         \/ CheckTimeout(r)
         \/ Solve(r)
         \/ Submit(r)
         \/ IncrRead(r)
         \/ IncrWrite(r)

Spec == Init /\ [][Next]_vars

(***************************************************************************)
(* SpecSeq: the requests of one identity arrive one after the other, each  *)
(* after the response to the one before it.  fout is the history of the    *)
(* responses: the status and the time of each.  The handler of a request   *)
(* runs on: every call it makes has a timeout, so it always takes its next *)
(* step.                                                                   *)
(***************************************************************************)
SeqMaxTicks == 4

SeqMaxHistory == 3

\* authenticated bodies of one identity, with or without a url
SeqBodies ==
    {b \in Bodies : b.kind = "json" /\ b.secret = Str(SECRET) /\ b.email = Str(QuizEmail)}

SeqInit ==
    /\ now = 0
    /\ ticks = 0
    /\ active_sessions = [e \in Emails |-> 0]
    /\ heap = <<>>
    /\ req = [r \in Requests |-> IdleRequest]
    /\ fin = None
    /\ fout = <<>>
    /\ fpc = "sequential"

\* a request arrives when no other is being handled
SeqReceive(r) ==
    /\ \A r2 \in Requests : req[r2].pc = "idle"
    /\ Len(fout) < SeqMaxHistory
    /\ Receive(r)
    /\ req'[r].body \in SeqBodies

\* the steps of quiz() after validation
SeqStep(r) ==
    \/ EnsureSession(r)
    \/ CheckTimeout(r)
    \/ Solve(r)
    \/ Submit(r)
    \/ IncrRead(r)
    \/ IncrWrite(r)

\* the response is sent: its status and its time enter the history
Retire(r) ==
    /\ req[r].pc = "done"
    /\ fout' = Append(fout, [status |-> req[r].status, at |-> now])
    /\ req' = [req EXCEPT ![r] = IdleRequest]
    /\ UNCHANGED <<now, ticks, active_sessions, heap, fin, fpc>>

\* time passes, but not between a response and its entry in the history
SeqTick ==
    /\ ticks < SeqMaxTicks
    /\ \A r \in Requests : req[r].pc # "done"
    /\ ticks' = ticks + 1
    /\ now' = now + TickStep
    /\ UNCHANGED <<active_sessions, heap, req, funVars>>

SeqNext ==
    \/ SeqTick
    \/ \E r \in Requests :
         \/ SeqReceive(r)
         \/ SeqStep(r)
         \/ Retire(r)

SpecSeq ==
    /\ SeqInit
    /\ [][SeqNext]_vars
    /\ WF_vars(\E r \in Requests : SeqStep(r))

(***************************************************************************)
(* Properties                                                              *)
(***************************************************************************)
\* the handlers a log says were run, in order
RECURSIVE HandlersRun(_)
HandlersRun(log) ==
    IF log = <<>> THEN <<>>
    ELSE (IF Head(log).op = "handler" THEN <<Head(log).arg>> ELSE <<>>)
            \o HandlersRun(Tail(log))

\* the log holds this event
Logged(log, e) == \E i \in 1..Len(log) : log[i] = e

RenderFailed(page) == Falsy(page.html) \/ Falsy(page.text)

SolveReturned == fpc \in {"failed", "solved", "submitted"}

\* C1: solve raises if and only if render_page yields no markup or no text, and
\* in every other case, whichever branch the router takes, it returns an
\* Answer that is not None.
C1_SolveRaisesIffRenderFails ==
    SolveReturned =>
        /\ fout.solved.raised <=> RenderFailed(fin.page)
        /\ ~fout.solved.raised => fout.solved.answer # None

\* the router's rules, in the order of the cascade
RouterRules ==
    <<[name |-> "FileDownload", keywords |-> {"download", "file"}],
      [name |-> "ApiCall", keywords |-> {"api", "endpoint"}],
      [name |-> "DataAnalysis", keywords |-> {"sum", "average", "count", "analyze"}],
      [name |-> "Visualization", keywords |-> {"chart", "graph"}]>>

RuleMatches(k, q) == \E x \in RouterRules[k].keywords : Contains(q, x)

\* the earliest rule a lowercased question matches, Default if none
FirstMatch(q) ==
    IF \E k \in 1..Len(RouterRules) : RuleMatches(k, q)
    THEN RouterRules[CHOOSE k \in 1..Len(RouterRules) :
                        RuleMatches(k, q) /\ \A l \in 1..(k - 1) : ~RuleMatches(l, q)].name
    ELSE "Default"

\* C2: execute_plan runs exactly one handler, the one of the earliest rule the
\* lowercased question matches (Default if none); a question with the keywords
\* of several rules, such as "download" and "analyze", goes to FileDownload.
C2_RouterFirstMatchWins ==
    (SolveReturned /\ ~fout.solved.raised) =>
        /\ HandlersRun(fout.solved.log) = <<FirstMatch(Lower(fout.solved.question))>>
        /\ (\E k \in {"download", "file"} : Contains(Lower(fout.solved.question), k))
              => HandlersRun(fout.solved.log) = <<"FileDownload">>

C2_Witness ==
    /\ fpc = "solved"
    /\ fout.solved.question = "please download the file and analyze it"
    /\ HandlersRun(fout.solved.log) = <<"FileDownload">>

\* int parse first, then float parse, then the string itself
IntThenFloat(s) ==
    IF IntParses(s) THEN IntV(IntOf(s))
    ELSE IF FloatParses(s) THEN FloatOf(s)
    ELSE Str(s)

\* C3: for the trimmed response s of a configured provider, solve_generic
\* returns int(s) if s parses as an integer, otherwise float(s) if s parses as
\* a float, otherwise s itself.
C3_CoercionIntThenFloat ==
    (/\ fpc = "solved"
     /\ fin.reply.kind = "text"
     /\ LLMInit(fin.keys).client # NoClient)
        => fout = IntThenFloat(Strip(fin.reply.text))

\* C4: when no provider has valid credentials (each key absent, or its client
\* construction failing), solve_generic returns the fixed sentinel, whatever
\* the question and whatever the provider would have replied.
C4_NoCredentialsSentinel ==
    (fpc = "solved" /\ NoValidCredentials(fin.keys)) => fout = Str(NoLLMAnswer)

C4_Witness ==
    /\ fpc = "solved"
    /\ fin.keys = BrokenKeys
    /\ fin.reply = [kind |-> "text", text |-> "42"]
    /\ fout = Str(NoLLMAnswer)

Authenticated(b) == b.kind = "json" /\ b.secret = Str(SECRET)

\* the session stored for this email is older than the timeout
StaleSession(email) ==
    /\ active_sessions[email] # 0
    /\ now - heap[active_sessions[email]].start_time > Timeout

\* the request ends with a timeout rejection, having run neither solve nor
\* submit_answer, and leaves the email's attempt counter at zero
TimedOut(r, email) ==
    /\ req'[r].pc = "done"
    /\ req'[r].status = 408
    /\ req'[r].calls = <<>>
    /\ heap'[active_sessions'[email]].attempts = 0

\* C5 as stated: every authenticated request of an identity whose session is
\* older than 180 seconds ends with 408, without solve or submit, and leaves
\* the counter at zero.
C5_AuthenticatedStaleGets408 ==
    [][\A r \in Requests :
         (/\ req[r].pc \in {"idle", "timeout"}
          /\ req'[r].pc = "done"
          /\ Authenticated(req'[r].body)
          /\ ~Falsy(req'[r].body.email)
          /\ StaleSession(req'[r].body.email.s))
            => TimedOut(r, req'[r].body.email.s)]_vars

\* C5, amended: an authenticated request that carries an email and a url, and
\* whose timeout check finds the session older than 180 seconds, ends with
\* 408, without solve or submit, and leaves the counter at zero in a session
\* that starts now.
C5_ValidStaleGets408 ==
    [][\A r \in Requests :
         (/\ req[r].pc = "timeout"
          /\ req'[r] # req[r]
          /\ StaleSession(req[r].body.email.s))
            => /\ Authenticated(req[r].body)
               /\ TimedOut(r, req[r].body.email.s)
               /\ heap'[active_sessions'[req[r].body.email.s]].start_time = now]_vars

\* a request was rejected for timeout after the same email had an attempt counted
C5_Witness ==
    \E r \in Requests :
        /\ req[r].status = 408
        /\ heap[active_sessions[req[r].body.email.s]].attempts = 0
        /\ \E r2 \in Requests \ {r} :
             /\ req[r2].status = 200
             /\ req[r2].body.email = req[r].body.email
        /\ \E i \in 1..Len(heap) : heap[i].attempts = 1

\* an empty or invalid JSON body, a secret that is not the configured one, or
\* no email or no url
Malformed(b) ==
    \/ b.kind \in {"invalid", "falsy"}
    \/ /\ b.kind = "json"
       /\ b.secret # Str(SECRET) \/ Falsy(b.email) \/ Falsy(b.url)

\* C6: a malformed or unauthorized request is rejected before the orchestrator
\* runs: neither solve nor submit_answer is invoked for it.
C6_RejectedBeforeOrchestrator ==
    \A r \in Requests :
        Malformed(req[r].body) =>
            /\ req[r].pc = "done"
            /\ req[r].status \in {400, 403}
            /\ req[r].calls = <<>>

C6_Witness ==
    \E r \in Requests, r2 \in Requests :
        /\ req[r].body.kind = "json"
        /\ req[r].body.secret = None
        /\ ~Falsy(req[r].body.email)
        /\ ~Falsy(req[r].body.url)
        /\ req[r].status = 403
        /\ req[r].calls = <<>>
        /\ req[r2].calls # <<>>

\* the calls of a request whose solve returned and whose answer was submitted
SolveThenSubmit(r) ==
    <<Event("solve", req[r].body.url),
      Event("submit", [email |-> req[r].body.email.s, secret |-> SECRET,
                       url |-> req[r].body.url.s,
                       answer |-> ServerSolves[req[r].world].answer])>>

\* C7: in an accepted request, if rendering fails submit_answer is never
\* invoked and the request ends with 500; if rendering succeeds, submit_answer
\* is invoked exactly once, after solve, with the value solve returned, also
\* when that value is a degraded answer, and the request ends with 200.
C7_SubmitOnceAfterSolve ==
    \A r \in Requests :
        /\ req[r].pc \in {"session", "timeout", "solve"} => req[r].calls = <<>>
        /\ req[r].world # 0 =>
             IF RenderFailed(ServerWorlds[req[r].world].page)
             THEN /\ req[r].pc = "done"
                  /\ req[r].status = 500
                  /\ req[r].calls = <<Event("solve", req[r].body.url)>>
             ELSE \/ /\ req[r].pc = "submit"
                     /\ req[r].calls = <<Event("solve", req[r].body.url)>>
                  \/ /\ req[r].pc \in {"incr", "store"}
                     /\ req[r].calls = SolveThenSubmit(r)
                  \/ /\ req[r].pc = "done"
                     /\ req[r].status = 200
                     /\ req[r].calls = SolveThenSubmit(r)

\* a request whose solve returned None ended with 200 and that answer submitted
C7_Witness ==
    \E r \in Requests :
        /\ req[r].pc = "done"
        /\ req[r].status = 200
        /\ req[r].answer = None
        /\ Len(req[r].calls) = 2
        /\ req[r].calls[2].op = "submit"
        /\ req[r].calls[2].arg.answer = None

\* [^\s\"]+ at position i: the length of the run of characters that are neither
\* white space nor a quote
RECURSIVE UrlBodyLen(_, _)
UrlBodyLen(s, i) ==
    IF Ch(s, i) = "" \/ IsSpace(Ch(s, i)) \/ Ch(s, i) = "\"" THEN 0
    ELSE 1 + UrlBodyLen(s, i + 1)

\* the complete absolute URLs of a markup, in document order
RECURSIVE CompleteUrls(_, _)
CompleteUrls(s, i) ==
    IF i > Len(s) THEN <<>>
    ELSE IF SchemeAt(s, i) > 0 /\ UrlBodyLen(s, i + SchemeAt(s, i)) > 0
         THEN <<SubSeq(s, i, i + SchemeAt(s, i) + UrlBodyLen(s, i + SchemeAt(s, i)) - 1)>>
                \o CompleteUrls(s, i + SchemeAt(s, i) + UrlBodyLen(s, i + SchemeAt(s, i)))
         ELSE CompleteUrls(s, i + 1)

\* the first complete URL with a submission keyword, None if there is none
FirstSubmitUrl(html) ==
    IF SelectSeq(CompleteUrls(html, 1), IsSubmitUrl) # <<>>
    THEN Str(Head(SelectSeq(CompleteUrls(html, 1), IsSubmitUrl)))
    ELSE None

\* C8: extract_submit_url returns None when the markup holds no absolute URL
\* with "submit" or "answer" in it (in any case), and otherwise the first such
\* complete URL in document order.
C8_FirstSubmitUrl == fpc = "extracted" => fout = FirstSubmitUrl(fin)

\* C9: in the FileDownload branch, when the markup holds no URL ending in a
\* supported file extension, the answer is a failure string.
C9_NoFileUrlFailureString ==
    (/\ SolveReturned
     /\ ~fout.solved.raised
     /\ HandlersRun(fout.solved.log) = <<"FileDownload">>
     /\ FindFileExts(fin.page.html.s, 1) = <<>>)
        => fout.solved.answer.type = "str"

\* C10: when the markup holds the CSV URL, the question routes to
\* FileDownload, the fetch and the parse succeed and no provider is
\* configured, the branch fetches that URL, forwards the excerpt to
\* solve_generic, and the Answer, which is the answer of the submission
\* payload, is the degraded sentinel.
C10_CsvEndToEndSentinel ==
    (/\ fpc = "submitted"
     /\ fin.page.html = Str("<a href=\"" \o CsvUrl \o "\">data</a>")
     /\ fin.page.text = Str("What is the sum? download file")
     /\ fin.get = "ok"
     /\ fin.parse = "ok"
     /\ LLMInit(fin.keys).client = NoClient)
        => /\ HandlersRun(fout.solved.log) = <<"FileDownload">>
           /\ Logged(fout.solved.log, Event("get", CsvUrl))
           /\ Logged(fout.solved.log,
                     Event("solve_generic",
                           fout.solved.question \o "\nData:\n" \o Slice(fin.data, 1, ExcerptLen)))
           /\ fout.solved.answer = Str(NoLLMAnswer)
           /\ fout.submitted.payload.answer = Str(NoLLMAnswer)

\* plans of every shape: well-formed, the defaults, and malformed ones
PlanValues ==
    {WellFormedPlan, IntV(7), None, Str("fetch"), Dict([steps |-> <<>>]),
     DefaultPlan("Unable to plan - no LLM"), DefaultPlan("Generic approach")}

\* C11: the plan is advisory: with the question, the markup and the outcomes
\* of the external calls fixed, execute_plan runs the same handler, makes the
\* same calls and returns the same Answer under every plan, and no plan keeps
\* the router from running a handler.
C11_PlanIsAdvisory ==
    (SolveReturned /\ ~fout.solved.raised) =>
        /\ Len(HandlersRun(fout.solved.log)) = 1
        /\ \A p \in PlanValues :
              execute_plan(LLMInit(fin.keys), p, fout.solved.question, fin.page.html.s, fin)
                = [ans |-> fout.solved.answer, log |-> fout.solved.log]

\* solve returned an answer of the provider under a plan that is no object
C11_Witness ==
    /\ fpc = "solved"
    /\ fout.solved.plan = IntV(7)
    /\ HandlersRun(fout.solved.log) = <<"DataAnalysis">>
    /\ fout.solved.answer = IntV(42)

\* a plan with one step and nothing else
SingleStepPlan(v) ==
    /\ v.type = "dict"
    /\ DOMAIN v.d = {"steps"}
    /\ Len(v.d.steps) = 1

\* C12: plan_solution returns a value in every case; when the provider's
\* response does not parse as JSON, when the provider call raises, and when no
\* client is configured, that value is a default plan of a single step.
C12_PlanSolutionNeverRaises ==
    fpc = "planned" =>
        /\ fout.type \in {"dict", "int"}
        /\ (fin.reply.kind \in {"notjson", "raise"} \/ NoValidCredentials(fin.keys))
              => SingleStepPlan(fout)
        /\ (fin.reply.kind = "notjson" /\ ~NoValidCredentials(fin.keys))
              => fout = DefaultPlan("Generic approach")
        /\ (fin.reply.kind = "raise" /\ ~NoValidCredentials(fin.keys))
              => fout = DefaultPlan("Error in planning")

\* a configured provider's response did not parse and the default plan came back
C12_Witness ==
    /\ fpc = "planned"
    /\ fin.keys = AnthropicFallback
    /\ fin.reply.kind = "notjson"
    /\ fout = DefaultPlan("Generic approach")

\* C13: submit_answer hands requests.post the payload {email, secret, url,
\* answer} once, and returns a value in every case: the parsed response body
\* as it is, or a record of the error when the POST or the parsing of its
\* response raises.
C13_SubmitOncePostNeverRaises ==
    fpc = "submitted" =>
        /\ fout.submitted.posts =
              <<[email |-> QuizEmail, secret |-> SECRET, url |-> QuizUrl,
                 answer |-> fout.solved.answer]>>
        /\ fout.post.kind = "json" => fout.submitted.result = Dict(fout.post.body)
        /\ fout.post.kind = "raise" =>
              fout.submitted.result = Dict([error |-> fout.post.msg])

\* the POST of a None answer raised and an error record came back
C13_Witness ==
    /\ fpc = "submitted"
    /\ fout.solved.answer = None
    /\ fout.post.kind = "raise"
    /\ Len(fout.submitted.posts) = 1
    /\ fout.submitted.result = Dict([error |-> "Read timed out."])

\* the provider whose credentials are valid, in priority order
PriorityProvider(env) ==
    IF env.openai_key /\ env.openai_ok THEN "openai"
    ELSE IF env.anthropic_key /\ env.anthropic_ok THEN "anthropic"
    ELSE "none"

\* C14: after __init__ the provider is OpenAI whenever its key is set and its
\* client can be constructed, Anthropic only when OpenAI was not selected and
\* Anthropic's key is set and its client can be constructed, and the client is
\* non-null exactly when the provider is one of the two; so plan_solution,
\* solve_generic and analyze_data never take their "No provider" branch.
C14_ProviderPriority ==
    /\ LLMInit(fin.keys).provider = PriorityProvider(fin.keys)
    /\ LLMInit(fin.keys).client # NoClient
          <=> LLMInit(fin.keys).provider \in {"openai", "anthropic"}
    /\ LLMInit(fin.keys).client # NoClient
          => LLMInit(fin.keys).client = LLMInit(fin.keys).provider
    /\ fpc = "planned" => fout # DefaultPlan("No provider")
    /\ (fpc \in {"solved", "analyzed"} /\ fout = Str("No provider"))
          => /\ fin.reply.kind = "text"
             /\ Strip(fin.reply.text) = "No provider"
             /\ ~NoValidCredentials(fin.keys)

\* both keys are set, OpenAI's client cannot be built: Anthropic answered
C14_Witness ==
    /\ fpc = "analyzed"
    /\ fin.keys = AnthropicFallback
    /\ LLMInit(fin.keys) = [client |-> "anthropic", provider |-> "anthropic"]
    /\ fin.reply = [kind |-> "text", text |-> "42"]
    /\ fout = Str("42")

\* the status the precedence gives a request that ends: b is its body, stale
\* whether its timeout check found the session older than 180 s, failed
\* whether rendering failed in its solve
PrecedenceStatus(b, stale, failed) ==
    IF b.kind \in {"invalid", "falsy"} THEN 400
    ELSE IF ~Authenticated(b) THEN 403
    ELSE IF Falsy(b.email) \/ Falsy(b.url) THEN 400
    ELSE IF stale THEN 408
    ELSE IF failed THEN 500
    ELSE 200

\* C16: every request ends with the one status the precedence gives it:
\* invalid or empty JSON 400, then secret mismatch 403, then missing email or
\* url 400, then a session older than 180 s 408, then a render failure 500,
\* and otherwise 200 with the result of the submission.
C16_StatusPrecedence ==
    [][\A r \in Requests :
         (req[r].pc # "done" /\ req'[r].pc = "done") =>
            /\ req'[r].status =
                  PrecedenceStatus(req'[r].body,
                                   req[r].pc = "timeout",
                                   req'[r].world # 0
                                      /\ RenderFailed(ServerWorlds[req'[r].world].page))
            /\ req'[r].status = 200 =>
                  /\ req'[r].result # None
                  /\ Len(req'[r].calls) = 2]_vars

\* a request whose body is JSON but no object ended with 500
C16_Witness ==
    \E r \in Requests :
        /\ req[r].pc = "done"
        /\ req[r].body.kind = "nondict"
        /\ req[r].status = 500
        /\ req[r].calls = <<>>

\* the requests of this email that returned 200 after having been accepted in
\* the session window now stored for it
CompletedInWindow(email) ==
    {r \in Requests : /\ req[r].pc = "done"
                      /\ req[r].status = 200
                      /\ req[r].body.email = Str(email)
                      /\ req[r].win = active_sessions[email]}

\* C17: in every reachable state the attempt counter of an identity is the
\* number of requests that returned 200 after having been accepted in its
\* current session window: no increment is lost, and a request accepted before
\* a timeout reset does not count in the new window.
C17_AttemptsCountCompleted ==
    \A email \in Emails :
        active_sessions[email] # 0 =>
            heap[active_sessions[email]].attempts = Cardinality(CompletedInWindow(email))

\* a request accepted in an earlier window has incremented the counter of the
\* window a timeout rejection opened after it
C17_Witness ==
    \E r \in Requests, r2 \in Requests :
        /\ req[r].status = 200
        /\ req[r2].status = 408
        /\ req[r2].body.email = req[r].body.email
        /\ req[r].win # active_sessions[req[r].body.email.s]
        /\ heap[req[r].win].attempts = 0
        /\ heap[active_sessions[req[r].body.email.s]].attempts = 1

InFlight == {"solve", "submit", "incr", "store"}

\* no two timeout rejections of the history are 180 seconds or less apart
RejectionsApart ==
    \A i \in 1..Len(fout), j \in 1..Len(fout) :
        (i < j /\ fout[i].status = 408 /\ fout[j].status = 408)
            => fout[j].at - fout[i].at > Timeout

\* a timeout check made at most 180 seconds after the timeout rejection of the
\* request before it lets the request through
AcceptedAfterRejection(r) ==
    (/\ req[r].pc = "timeout"
     /\ req'[r] # req[r]
     /\ fout # <<>>
     /\ fout[Len(fout)].status = 408
     /\ now - fout[Len(fout)].at <= Timeout)
        => req'[r].pc = "solve"

\* a request past its timeout check stays in flight or ends with 200 or 500
NotInterrupted(r) ==
    (req[r].pc \in InFlight /\ req'[r] # req[r])
        => \/ req'[r].pc \in InFlight
           \/ req'[r].pc = "done" /\ req'[r].status \in {200, 500}

\* C18: a timeout rejection restarts the session window at its own time: for
\* sequential requests of one identity, the request after a 408 passes the
\* timeout check whenever the check is made at most 180 seconds after the
\* rejection, so no two timeout rejections are 180 seconds or less apart; and
\* a request that passed the check is never rejected for timeout afterwards:
\* it runs on to its response, 200 or, when rendering fails, 500, however
\* much time passes meanwhile.
C18_TimeoutRestartsWindow ==
    /\ []RejectionsApart
    /\ [][\A r \in Requests : AcceptedAfterRejection(r) /\ NotInterrupted(r)]_vars
    /\ \A r \in Requests :
          (req[r].pc = "solve") ~> (req[r].pc = "done" /\ req[r].status \in {200, 500})

\* the request after a timeout rejection was accepted in the window the
\* rejection opened and returned 200 more than 180 seconds after it
C18_Witness ==
    /\ fpc = "sequential"
    /\ fout # <<>>
    /\ fout[Len(fout)].status = 408
    /\ \E r \in Requests :
         /\ req[r].pc = "done"
         /\ req[r].status = 200
         /\ req[r].win = active_sessions[QuizEmail]
         /\ heap[req[r].win].start_time = fout[Len(fout)].at
         /\ now - heap[req[r].win].start_time > Timeout

\* the request passed validation: it has an identity and reaches the session logic
Valid(r) ==
    /\ Authenticated(req[r].body)
    /\ ~Falsy(req[r].body.email)
    /\ ~Falsy(req[r].body.url)

\* no other request that passed validation has this request's identity
AloneInIdentity(r) ==
    /\ Valid(r)
    /\ \A r2 \in Requests \ {r} : Valid(r2) => req[r2].body.email # req[r].body.email

\* the session dict now stored for the request's identity
SessionOf(r) == heap[active_sessions[req[r].body.email.s]]

\* what a request running alone leaves: 200 and one attempt counted, 500 after
\* a render failure and none counted, or 408 and a new session
AloneOutcome(r) ==
    /\ req[r].pc \in {"timeout", "solve", "submit", "incr", "store"}
          => SessionOf(r).attempts = 0
    /\ req[r].pc = "done" =>
          /\ req[r].status \in {200, 408, 500}
          /\ req[r].status = 200 =>
                /\ SessionOf(r) = [start_time |-> SessionOf(r).start_time, attempts |-> 1]
                /\ req[r].win = active_sessions[req[r].body.email.s]
                /\ ~RenderFailed(ServerWorlds[req[r].world].page)
          /\ req[r].status = 500 =>
                /\ SessionOf(r).attempts = 0
                /\ req[r].win = active_sessions[req[r].body.email.s]
                /\ RenderFailed(ServerWorlds[req[r].world].page)
          /\ req[r].status = 408 =>
                /\ SessionOf(r).attempts = 0
                /\ req[r].win = 0
                /\ req[r].calls = <<>>

\* C15: concurrent requests of different identities are independent: under
\* every interleaving of the steps of all requests, a request that is alone in
\* its identity has the response, and its identity the session entry, that
\* the request has when it runs alone.
C15_IdentitiesIndependent ==
    \A r \in Requests : AloneInIdentity(r) => AloneOutcome(r)

\* a request has returned 200 while one of another identity is between the
\* read and the store of its own increment
C15_Witness ==
    \E r \in Requests, r2 \in Requests :
        /\ Valid(r)
        /\ Valid(r2)
        /\ req[r].body.email # req[r2].body.email
        /\ req[r].status = 200
        /\ req[r2].pc = "store"
        /\ SessionOf(r).attempts = 1
        /\ SessionOf(r2).attempts = 0

====
